---- MODULE Spec2Model ----
(***************************************************************************)
(* The crawl orchestration of src/src/crawler/crawl.py: the frontier       *)
(* (a pandas DataFrame indexed by doc_id), the batch scheduler             *)
(* fetch_next_doc_batch, the retrying fetch _get / fetch_response, the     *)
(* page classifier add_new_links_to_frontier and the run loop _run with    *)
(* its snapshot save_frontier / load_frontier.                             *)
(*                                                                         *)
(* A URL (httpx.URL) is a record [scheme, host, path, query, fragment];    *)
(* an absent component is "" (the host: the empty sequence).  A host is    *)
(* the sequence of its dot-separated labels.  str(url) is the 5-tuple of   *)
(* the components, and doc_id is md5 over that string, modelled as an      *)
(* injective wrapper.  pd.Timestamp.now() is a logical clock: a reading is  *)
(* later than every timestamp the frontier holds, and the readings within  *)
(* one iteration of the result loop are the same instant.                  *)
(***************************************************************************)
EXTENDS Integers, Sequences, FiniteSets, TLC

\* ------------------------------------------------------------------ bounds
\* config.max_depth (default 10) and config.batch_size (default 256), small.
MaxDepth == 3
BatchSize == 2
\* how often the process may be stopped and started again
MaxCrashes == 1

\* ------------------------------------------------------- program constants
\* stop_after_attempt(3)
MaxAttempts == 3
\* Priority.high.value, Priority.low.value
PriorityHigh == 1
PriorityLow == 0

\* ------------------------------------------------------------------- hosts
HostW == <<"www", "tue", "de">>
HostU == <<"uni", "tue", "de">>
HostX == <<"ex", "org">>
HostV == <<"v", "net">>
HostK == <<"fr", "wikipedia", "org">>

\* httpx.URL as a record
MkURL(scheme, host, path, query, fragment) ==
  [scheme |-> scheme, host |-> host, path |-> path, query |-> query,
   fragment |-> fragment]

Https(host, path) == MkURL("https", host, path, "", "")

\* str(url) and URL(str): the string form is the tuple of the components
StrOf(url) == <<url.scheme, url.host, url.path, url.query, url.fragment>>

ParseURL(s) == MkURL(s[1], s[2], s[3], s[4], s[5])

\* ------------------------------------------------------------ pure helpers
\* url.is_absolute_url: scheme and host both present
IsAbsolute(url) == url.scheme # "" /\ url.host # <<>>

\* url.host.count(".")
DotCount(host) == IF Len(host) = 0 THEN 0 ELSE Len(host) - 1

\* Crawler.get_main_domain
get_main_domain(url) ==
  IF DotCount(url.host) > 1
  THEN SubSeq(url.host, Len(url.host) - 1, Len(url.host))
  ELSE url.host

\* copy_with(query=None): the fragment stays
clean_url_query_only(url) == [url EXCEPT !.query = ""]

\* copy_with(fragment=None): the query stays
clean_url_fragment_only(url) == [url EXCEPT !.fragment = ""]

\* Crawler.clean_url: copy_with(query=None, fragment=None, params=None);
\* for httpx params is the query string given as key-value pairs, and it is
\* folded into the query, so the query and the fragment are removed.  A
\* ";" parameter of a path segment is part of url.path and stays.
clean_url(url) == [url EXCEPT !.query = "", !.fragment = ""]

\* Crawler.create_id_for_url: md5 of str(url), injective on the strings used
create_id_for_url(url) == <<"md5", StrOf(url)>>

\* labels matching wiki\w*
WikiLabels == {"wiki", "wikipedia", "wikivoyage"}

\* re.compile(r"(?!en|de)\.wiki\w*\.org").search(host): the lookahead is
\* tested at the position of the "." that follows, where the text starts
\* with "." and so never with "en" or "de": it always succeeds.  What is
\* left is a "." (so a label before it), a label wiki\w*, and ".org".
DeniedWiki(host) ==
  \E i \in 2..Len(host) :
    /\ i + 1 <= Len(host)
    /\ host[i] \in WikiLabels
    /\ host[i + 1] = "org"

\* the other patterns of get_denied_domains: <name>.com, web.archive.org
DeniedNames == {"facebook", "twitter", "youtube", "instagram", "linkedin",
                "reddit"}

DeniedOther(host) ==
  \/ \E i \in 1..Len(host) :
       i + 1 <= Len(host) /\ host[i] \in DeniedNames /\ host[i + 1] = "com"
  \/ \E i \in 1..Len(host) :
       /\ i + 2 <= Len(host)
       /\ host[i] = "web" /\ host[i + 1] = "archive" /\ host[i + 2] = "org"

\* any(d.search(url.host) for d in self.config.denied_domains)
HostDenied(host) == DeniedWiki(host) \/ DeniedOther(host)

\* Crawler.is_url_valid
is_url_valid(url) ==
  /\ IsAbsolute(url)
  /\ url.scheme \in {"http", "https"}
  /\ ~HostDenied(url.host)

\* base_url.join(ref) (RFC 3986 reference resolution) for the reference
\* forms used here: a reference with a scheme stands for itself, one with
\* only a host takes the base's scheme, one with a path replaces the path
\* and query, one without a path keeps the base's path.
JoinURL(base, ref) ==
  IF ref.scheme # "" THEN ref
  ELSE IF ref.host # <<>> THEN [ref EXCEPT !.scheme = base.scheme]
  ELSE IF ref.path # ""
       THEN MkURL(base.scheme, base.host, ref.path, ref.query, ref.fragment)
       ELSE MkURL(base.scheme, base.host, base.path,
                  IF ref.query # "" THEN ref.query ELSE base.query,
                  ref.fragment)

\* An href is [bad |-> TRUE] when httpx.URL(href) raises InvalidURL, and
\* otherwise carries the parsed URL.
BadHref == [bad |-> TRUE, url |-> MkURL("", <<>>, "", "", "")]

Href(url) == [bad |-> FALSE, url |-> url]

NoURL == [some |-> FALSE, url |-> MkURL("", <<>>, "", "", "")]

SomeURL(url) == [some |-> TRUE, url |-> url]

\* extract_url without the call of is_url_valid
extract_url_unvalidated(href, base_url) ==
  IF href.bad THEN NoURL
  ELSE LET joined == IF ~IsAbsolute(href.url)
                     THEN JoinURL(base_url, href.url)
                     ELSE href.url
       IN SomeURL(clean_url(joined))

\* Crawler.extract_url: URL or None
extract_url(href, base_url) ==
  IF href.bad THEN NoURL
  ELSE LET joined == IF ~IsAbsolute(href.url)
                     THEN JoinURL(base_url, href.url)
                     ELSE href.url
           cleaned == clean_url(joined)
       IN IF is_url_valid(cleaned) THEN SomeURL(cleaned) ELSE NoURL

\* ---------------------------------------------------------------- frontier
\* The frontier is the sequence of the DataFrame's rows, in row order.
HasDoc(f, id) == \E i \in 1..Len(f) : f[i].doc_id = id

RowIndex(f, id) == CHOOSE i \in 1..Len(f) : f[i].doc_id = id

Loc(f, id) == f[RowIndex(f, id)]

DocIds(f) == {f[i].doc_id : i \in 1..Len(f)}

Min(a, b) == IF a < b THEN a ELSE b

Max(a, b) == IF a > b THEN a ELSE b

\* pd.Timestamp: the value t of the clock, held as a datetime
Timestamp(t) == [dtype |-> "datetime", at |-> t]

\* a fresh row, as built in convert_seed_to_frontier and add_to_frontier
NewRow(url, priority, depth, root, key, t) ==
  [doc_id |-> create_id_for_url(url),
   url |-> StrOf(url),
   domain |-> url.host,
   main_domain |-> get_main_domain(url),
   depth |-> depth,
   priority |-> priority,
   status |-> "pending",
   created |-> Timestamp(t),
   updated |-> Timestamp(t),
   root |-> root,
   random_sort_key |-> key,
   features_tubingen |-> FALSE,
   features_english |-> FALSE]

\* the columns of the DataFrame
Columns == {"doc_id", "url", "domain", "main_domain", "depth", "priority",
            "status", "created", "updated", "root", "random_sort_key",
            "features_tubingen", "features_english"}

\* a row set by enlargement: the columns not given are NaN
NaNRow(id, upd) ==
  [c \in Columns |->
     IF c = "doc_id" THEN id
     ELSE IF c \in DOMAIN upd THEN upd[c] ELSE "NaN"]

\* Crawler.update_doc at time t: frontier.loc[doc_id, keys] = values, with
\* "updated" added to the update; .loc with an unknown label appends a row.
update_doc(f, t, id, upd) ==
  LET full == [c \in (DOMAIN upd) \cup {"updated"} |->
                 IF c = "updated" THEN Timestamp(t) ELSE upd[c]]
  IN IF HasDoc(f, id)
     THEN [i \in 1..Len(f) |->
             IF f[i].doc_id = id
             THEN [c \in Columns |->
                     IF c \in DOMAIN full THEN full[c] ELSE f[i][c]]
             ELSE f[i]]
     ELSE Append(f, NaNRow(id, full))

\* add_to_frontier without the lookup: the row is written whether or not the
\* doc_id is already there
add_to_frontier_overwrite(f, t, url, priority, depth, root, key) ==
  LET id == create_id_for_url(url)
      row == NewRow(url, priority, depth, root, key, t)
  IN IF HasDoc(f, id)
     THEN [i \in 1..Len(f) |-> IF f[i].doc_id = id THEN row ELSE f[i]]
     ELSE Append(f, row)

\* add_to_frontier that takes the proposed depth and priority of any
\* rediscovered pending row, better or not
add_to_frontier_replace(f, t, url, priority, depth, root, key) ==
  LET id == create_id_for_url(url) IN
  IF ~HasDoc(f, id)
  THEN Append(f, NewRow(url, priority, depth, root, key, t))
  ELSE IF Loc(f, id).status = "pending"
       THEN update_doc(f, t, id, [depth |-> depth, priority |-> priority])
       ELSE f

\* add_to_frontier without the test of the status: a rediscovered row that
\* is completed or failed is updated like a pending one
add_to_frontier_any_status(f, t, url, priority, depth, root, key) ==
  LET id == create_id_for_url(url) IN
  IF ~HasDoc(f, id)
  THEN Append(f, NewRow(url, priority, depth, root, key, t))
  ELSE LET entry == Loc(f, id) IN
       IF entry.depth > depth \/ entry.priority < priority
       THEN update_doc(f, t, id, [depth |-> Min(entry.depth, depth),
                                  priority |-> Max(entry.priority, priority)])
       ELSE f

\* add_to_frontier that hands the proposing page's root to a pending row it
\* improves
add_to_frontier_reroot(f, t, url, priority, depth, root, key) ==
  LET id == create_id_for_url(url) IN
  IF ~HasDoc(f, id)
  THEN Append(f, NewRow(url, priority, depth, root, key, t))
  ELSE LET entry == Loc(f, id) IN
       IF entry.status = "pending"
          /\ (entry.depth > depth \/ entry.priority < priority)
       THEN update_doc(f, t, id, [depth |-> Min(entry.depth, depth),
                                  priority |-> Max(entry.priority, priority),
                                  root |-> root])
       ELSE f

\* add_to_frontier that calls update_doc for every rediscovered pending row,
\* improved or not
add_to_frontier_touch(f, t, url, priority, depth, root, key) ==
  LET id == create_id_for_url(url) IN
  IF ~HasDoc(f, id)
  THEN Append(f, NewRow(url, priority, depth, root, key, t))
  ELSE LET entry == Loc(f, id) IN
       IF entry.status = "pending"
       THEN update_doc(f, t, id, [depth |-> Min(entry.depth, depth),
                                  priority |-> Max(entry.priority, priority)])
       ELSE f

\* Crawler.add_to_frontier at time t; key is the value random.random()
\* returns if a row is created.
add_to_frontier(f, t, url, priority, depth, root, key) ==
  LET id == create_id_for_url(url) IN
  IF ~HasDoc(f, id)
  THEN Append(f, NewRow(url, priority, depth, root, key, t))
  ELSE LET entry == Loc(f, id) IN
       IF entry.status = "pending"
          /\ (entry.depth > depth \/ entry.priority < priority)
       THEN update_doc(f, t, id, [depth |-> Min(entry.depth, depth),
                                  priority |-> Max(entry.priority, priority)])
       ELSE f

\* --------------------------------------------------------------- scheduler
\* the query without the depth condition
Eligible_any_depth(f) == {i \in 1..Len(f) : f[i].status = "pending"}

\* the query for records of high priority only
Eligible_high_only(f) ==
  {i \in 1..Len(f) : /\ f[i].status = "pending" /\ f[i].depth < MaxDepth
                     /\ f[i].priority = PriorityHigh}

\* the query with the depth limit one too small
Eligible_shallow(f) ==
  {i \in 1..Len(f) : f[i].status = "pending" /\ f[i].depth < MaxDepth - 1}

\* the query with status != 'completed': a failed record is taken again
Eligible_not_completed(f) ==
  {i \in 1..Len(f) : f[i].status # "completed" /\ f[i].depth < MaxDepth}

\* frontier.query("status == 'pending' and depth < @max_depth"): row indices
Eligible(f) ==
  {i \in 1..Len(f) : f[i].status = "pending" /\ f[i].depth < MaxDepth}

\* sort_values with ascending=[False, False, True]: deeper rows first
SortsBefore_depth_descending(f, i, j) ==
  \/ f[i].priority > f[j].priority
  \/ /\ f[i].priority = f[j].priority
     /\ \/ f[i].depth > f[j].depth
        \/ /\ f[i].depth = f[j].depth
           /\ \/ f[i].random_sort_key < f[j].random_sort_key
              \/ /\ f[i].random_sort_key = f[j].random_sort_key
                 /\ i < j

\* sort_values(["priority", "depth", "random_sort_key"],
\*             ascending=[False, True, True]): row i comes before row j;
\* the multi-column sort is stable, so equal rows keep their row order.
SortsBefore(f, i, j) ==
  \/ f[i].priority > f[j].priority
  \/ /\ f[i].priority = f[j].priority
     /\ \/ f[i].depth < f[j].depth
        \/ /\ f[i].depth = f[j].depth
           /\ \/ f[i].random_sort_key < f[j].random_sort_key
              \/ /\ f[i].random_sort_key = f[j].random_sort_key
                 /\ i < j

RECURSIVE sort_values(_, _)
sort_values(f, S) ==
  IF S = {} THEN <<>>
  ELSE LET first == CHOOSE i \in S : \A j \in S \ {i} : SortsBefore(f, i, j)
       IN <<first>> \o sort_values(f, S \ {first})

\* no drop_duplicates
drop_duplicates_none(f, idx, col) == idx

\* drop_duplicates(subset=[col], keep="first") on a sequence of row indices
RECURSIVE drop_duplicates(_, _, _)
drop_duplicates(f, idx, col) ==
  IF idx = <<>> THEN <<>>
  ELSE LET n == Len(idx)
           init == drop_duplicates(f, SubSeq(idx, 1, n - 1), col)
       IN IF \E k \in 1..(n - 1) : f[idx[k]][col] = f[idx[n]][col]
          THEN init
          ELSE Append(init, idx[n])

\* no head(n)
head_all(idx, n) == idx

\* head(n)
head(idx, n) == SubSeq(idx, 1, Min(n, Len(idx)))

\* a request that carries the depth of the page before its record's
ScrapingRequest_depth_before(row) ==
  [doc_id |-> row.doc_id, url |-> ParseURL(row.url), root |-> row.root,
   depth |-> row.depth - 1]

\* ScrapingRequest(doc_id, url=URL(row["url"]), depth, root)
ScrapingRequest(row) ==
  [doc_id |-> row.doc_id, url |-> ParseURL(row.url), root |-> row.root,
   depth |-> row.depth]

\* the rows fetch_next_doc_batch selects, in order
BatchRows(f) ==
  head(drop_duplicates(f, sort_values(f, Eligible(f)), "main_domain"),
       BatchSize)

\* Crawler.fetch_next_doc_batch
fetch_next_doc_batch(f) ==
  LET idx == BatchRows(f)
  IN [k \in 1..Len(idx) |-> ScrapingRequest(f[idx[k]])]

\* ------------------------------------------------------------- environment
\* config.seed_urls in the order the set is iterated.  Rows with equal
\* priority and depth are ordered by their random keys first, so which seed
\* is scheduled first is decided by the keys drawn for them.
SeedUrls ==
  <<MkURL("https", HostW, "/", "q=1", ""),
    Https(HostK, "/"),
    Https(HostU, "/"),
    MkURL("https", HostW, "/en", "", "f"),
    Https(HostW, "/en")>>

\* the values random.random() may return
Keys == {0, 1}

\* the body of a response: content-type, size, text and markup
Page(is_html, too_large, tubingen, english, links) ==
  [html |-> is_html, large |-> too_large, relevant |-> tubingen,
   english |-> english, links |-> links]

NonHtmlPage == Page(FALSE, FALSE, FALSE, FALSE, <<>>)

LargePage == Page(TRUE, TRUE, TRUE, TRUE, <<>>)

OtherTopic(links) == Page(TRUE, FALSE, FALSE, TRUE, links)

\* a body lxml cannot parse: parse_html returns the tree of "<html></html>",
\* which has no text, no lang and no links
UnparsablePage == Page(TRUE, FALSE, FALSE, FALSE, <<>>)

English(links) == Page(TRUE, FALSE, TRUE, TRUE, links)

German(links) == Page(TRUE, FALSE, TRUE, FALSE, links)

\* the hrefs of the documents of the modelled web, by final URL
LinksAt(url) ==
  IF url.host = HostW /\ url.path = "/"
    THEN <<Href(MkURL("https", HostV, "/", "q=1", "")),
           Href(MkURL("", <<>>, "/en", "", "f"))>>
  ELSE IF url.host = HostU /\ url.path = "/"
    THEN <<Href(Https(HostX, "/")),
           Href(MkURL("mailto", <<>>, "info", "", "")),
           Href(Https(HostV, "/"))>>
  ELSE IF url.host = HostV /\ url.path = "/"
    THEN <<Href(Https(HostX, "/")), BadHref>>
  ELSE IF url.host = HostX /\ url.path = "/"
    THEN <<Href(Https(HostV, "/")), Href(MkURL("", <<>>, "", "p=2", ""))>>
  ELSE IF url.host = HostK
    THEN <<Href(MkURL("", <<>>, "/b", "", ""))>>
  ELSE IF url.host = HostW /\ url.path = "/en"
    THEN <<Href(Https(HostV, "/c")), Href(Https(HostX, "/"))>>
  ELSE <<>>

\* the bodies a GET may return at a final URL
PagesAt(url) ==
  IF url.host = HostW /\ url.path = "/" THEN {German(LinksAt(url))}
  ELSE IF url.host = HostU /\ url.path = "/" THEN {English(LinksAt(url))}
  ELSE IF url.host = HostW /\ url.path = "/en"
    THEN {OtherTopic(LinksAt(url)), UnparsablePage, NonHtmlPage, LargePage}
  ELSE IF url.host = HostV /\ url.path = "/" THEN {English(LinksAt(url))}
  ELSE IF url.host = HostX /\ url.path = "/" THEN {German(LinksAt(url))}
  ELSE IF url.host = HostK THEN {German(LinksAt(url)), NonHtmlPage}
  ELSE {OtherTopic(LinksAt(url))}

\* the final URLs a GET of url may end at (follow_redirects=True)
FinalUrls(url) ==
  IF url.host = HostV /\ url.path = "/"
    THEN {url, MkURL("https", HostX, "/", "s=1", "")}
  ELSE IF url.host = HostX /\ url.path = "/en"
    THEN {Https(HostK, "/wiki")}
  ELSE {url}

EmptyURL == MkURL("", <<>>, "", "", "")

\* what fetch_response returns: None, or a Response
NoneResponse ==
  [kind |-> "none", url |-> EmptyURL, page |-> NonHtmlPage]

\* a request whose fetch_response has not returned yet
InFlight ==
  [kind |-> "inflight", url |-> EmptyURL, page |-> NonHtmlPage]

Response(final, page) == [kind |-> "response", url |-> final, page |-> page]

\* the responses a successful _get(url) may return
ResponsesOf(url) ==
  UNION {{Response(final, page) : page \in PagesAt(final)} :
           final \in FinalUrls(url)}

\* --------------------------------------------------------------- classifier
\* the test of _run for None alone
Rejected_none_only(response) == response.kind = "none"

\* html_too_large / is_html on the response, and the test of _run
Rejected(response) ==
  \/ response.kind = "none"
  \/ ~response.page.html
  \/ response.page.large

\* response.url.copy_with(path="/en", query=None, fragment=None)
EnglishVariant(url) == [url EXCEPT !.path = "/en", !.query = "", !.fragment = ""]

\* the calls of add_to_frontier that the loop over tree.xpath("//a/@href")
\* makes from link k on: one for each href extract_url accepts; slot names
\* the random key a created row gets
RECURSIVE LinkProposals(_, _, _)
LinkProposals(response, priority, k) ==
  IF k > Len(response.page.links) THEN <<>>
  ELSE LET found == extract_url(response.page.links[k], response.url)
           rest == LinkProposals(response, priority, k + 1)
       IN IF found.some
          THEN <<[url |-> found.url, priority |-> priority, slot |-> k]>>
               \o rest
          ELSE rest

\* the links of a page that is not English proposed at high priority too
Proposals_all_high(response) ==
  IF ~response.page.relevant THEN <<>>
  ELSE LET url_en == EnglishVariant(response.url)
       IN (IF is_url_valid(url_en) /\ ~response.page.english
           THEN <<[url |-> url_en, priority |-> PriorityHigh, slot |-> 0]>>
           ELSE <<>>)
          \o LinkProposals(response, PriorityHigh, 1)

\* the '/en' candidate proposed for every relevant page, English or not
Proposals_en_always(response) ==
  IF ~response.page.relevant THEN <<>>
  ELSE LET url_en == EnglishVariant(response.url)
       IN (IF is_url_valid(url_en)
           THEN <<[url |-> url_en, priority |-> PriorityHigh, slot |-> 0]>>
           ELSE <<>>)
          \o LinkProposals(response,
                           IF response.page.english THEN PriorityHigh
                           ELSE PriorityLow, 1)

\* the calls of add_to_frontier that add_new_links_to_frontier makes, in
\* order: the English variant of a page that is not English, then the links
Proposals(response) ==
  IF ~response.page.relevant THEN <<>>
  ELSE IF response.page.english
  THEN LinkProposals(response, PriorityHigh, 1)
  ELSE LET url_en == EnglishVariant(response.url)
       IN (IF is_url_valid(url_en)
           THEN <<[url |-> url_en, priority |-> PriorityHigh, slot |-> 0]>>
           ELSE <<>>)
          \o LinkProposals(response, PriorityLow, 1)

\* the frontier after the first n of these calls
RECURSIVE AddProposals(_, _, _, _, _, _)
AddProposals(f, t, request, props, keys, n) ==
  IF n = 0 THEN f
  ELSE add_to_frontier(AddProposals(f, t, request, props, keys, n - 1), t,
                       props[n].url, props[n].priority, request.depth + 1,
                       request.root, keys[props[n].slot])

\* the English branch setting features_english alone
MarkFeatures_english_only(f, t, request, response) ==
  IF response.page.english
  THEN update_doc(f, t, request.doc_id, [features_english |-> TRUE])
  ELSE update_doc(f, t, request.doc_id, [features_tubingen |-> TRUE])

\* the update_doc of the feature flags in add_new_links_to_frontier
MarkFeatures(f, t, request, response) ==
  IF response.page.english
  THEN update_doc(f, t, request.doc_id,
                  [features_tubingen |-> TRUE, features_english |-> TRUE])
  ELSE update_doc(f, t, request.doc_id, [features_tubingen |-> TRUE])

\* add_new_links_to_frontier without the test of the relevance pattern
add_new_links_to_frontier_no_pruning(f, t, request, response, keys) ==
  LET page == [response EXCEPT !.page.relevant = TRUE]
  IN AddProposals(MarkFeatures(f, t, request, page), t, request,
                  Proposals(page), keys, Len(Proposals(page)))

\* Crawler.add_new_links_to_frontier
add_new_links_to_frontier(f, t, request, response, keys) ==
  IF ~response.page.relevant THEN f
  ELSE AddProposals(MarkFeatures(f, t, request, response), t, request,
                    Proposals(response), keys, Len(Proposals(response)))

\* the result loop with a bare "continue" for every rejected response
ProcessOne_skip_rejected(f, t, request, response, keys) ==
  IF Rejected(response) THEN f
  ELSE update_doc(add_new_links_to_frontier(f, t, request, response, keys),
                  t, request.doc_id,
                  [status |-> "completed",
                   url |-> StrOf(response.url),
                   domain |-> response.url.host])

\* the result loop with a bare "continue" for a response that is None
ProcessOne_skip_none(f, t, request, response, keys) ==
  IF response.kind = "none" THEN f
  ELSE IF Rejected(response)
  THEN update_doc(f, t, request.doc_id, [status |-> "failed"])
  ELSE update_doc(add_new_links_to_frontier(f, t, request, response, keys),
                  t, request.doc_id,
                  [status |-> "completed",
                   url |-> StrOf(response.url),
                   domain |-> response.url.host])

\* one iteration of "for req, response in zip(req_batch, responses)"
ProcessOne(f, t, request, response, keys) ==
  IF Rejected(response)
  THEN update_doc(f, t, request.doc_id, [status |-> "failed"])
  ELSE update_doc(add_new_links_to_frontier(f, t, request, response, keys),
                  t, request.doc_id,
                  [status |-> "completed",
                   url |-> StrOf(response.url),
                   domain |-> response.url.host])

\* ----------------------------------------------------------------- snapshot
ColumnOrder ==
  <<"doc_id", "url", "domain", "main_domain", "depth", "priority", "status",
    "created", "updated", "root", "random_sort_key", "features_tubingen",
    "features_english">>

\* the text to_csv writes for a cell: a datetime is written as its string
str(v) ==
  IF "dtype" \in DOMAIN v THEN [dtype |-> "str", at |-> v.at] ELSE v

\* frontier.to_csv: one line per row, the index first
to_csv(f) ==
  [i \in 1..Len(f) |->
     [c \in 1..Len(ColumnOrder) |->
        IF ColumnOrder[c] \in {"created", "updated"}
        THEN str(f[i][ColumnOrder[c]])
        ELSE f[i][ColumnOrder[c]]]]

\* pd.read_csv(fp).set_index("doc_id"): no parse_dates, so created and
\* updated stay the strings of the file
read_csv(lines) ==
  [i \in 1..Len(lines) |->
     [c \in Columns |->
        lines[i][CHOOSE n \in 1..Len(ColumnOrder) : ColumnOrder[n] = c]]]

NoFile == [exists |-> FALSE, lines |-> <<>>]

File(lines) == [exists |-> TRUE, lines |-> lines]

\* Crawler.convert_seed_to_frontier over the seeds in iteration order
RECURSIVE convert_seed_to_frontier(_, _, _)
convert_seed_to_frontier(order, keys, t) ==
  IF order = <<>> THEN <<>>
  ELSE LET n == Len(order)
           init == convert_seed_to_frontier(SubSeq(order, 1, n - 1), keys, t)
           url == clean_url(order[n])
       IN IF ~is_url_valid(url) THEN init
          ELSE Append(init, NewRow(url, PriorityHigh, 0,
                                   create_id_for_url(url), keys[n], t))

\* load_frontier without drop_duplicates
load_frontier_keep_duplicates(file, order, keys, t) ==
  IF file.exists
  THEN read_csv(file.lines)
  ELSE convert_seed_to_frontier(order, keys, t)

\* Crawler.load_frontier
load_frontier(file, order, keys, t) ==
  IF file.exists
  THEN read_csv(file.lines)
  ELSE LET rows == convert_seed_to_frontier(order, keys, t)
           kept == drop_duplicates(rows, [i \in 1..Len(rows) |-> i], "doc_id")
       IN [k \in 1..Len(kept) |-> rows[kept[k]]]

\* pd.Timestamp.now(): later than every timestamp in the frontier
RECURSIVE Latest(_)
Latest(f) ==
  IF f = <<>> THEN 0
  ELSE Max(Max(f[Len(f)].created.at, f[Len(f)].updated.at),
           Latest(SubSeq(f, 1, Len(f) - 1)))

Now(f) == Latest(f) + 1

\* "for req, response in zip(req_batch, responses)" up to pair n, from
\* frontier f, every new row drawing the key 0
RECURSIVE ProcessAll(_, _, _, _)
ProcessAll(f, reqs, resps, n) ==
  IF n = 0 THEN f
  ELSE ProcessOne(ProcessAll(f, reqs, resps, n - 1),
                  Now(ProcessAll(f, reqs, resps, n - 1)), reqs[n], resps[n],
                  [slot \in 0..Len(resps[n].page.links) |-> 0])

\* -------------------------------------------------------------------- state
VARIABLES
  frontier,   \* self.frontier, the rows in order
  disk,       \* the file <run_id>.csv
  html_dir,   \* the doc_ids with a file in html_dir
  pc,         \* where the process is: loop, gather, process, save, done, down
  req_batch,  \* req_batch of _run
  responses,  \* what fetch_response has returned for each request
  attempts,   \* the attempts _get has made for each request in flight
  pos,        \* the index of the result loop
  crashes,    \* how often the process has been stopped
  probe       \* a call of a URL helper on its own: function, arguments, result

vars == <<frontier, disk, html_dir, pc, req_batch, responses, attempts, pos,
          crashes, probe>>

\* no helper is called on its own during a run
NoProbe == [fn |-> "none", args |-> <<>>, ret |-> <<>>]

Init ==
  /\ \E keys \in [1..Len(SeedUrls) -> Keys] :
       frontier = load_frontier(NoFile, SeedUrls, keys, 0)
  /\ disk = NoFile
  /\ html_dir = {}
  /\ pc = "loop"
  /\ req_batch = <<>>
  /\ responses = <<>>
  /\ attempts = <<>>
  /\ pos = 1
  /\ crashes = 0
  /\ probe = NoProbe

\* a scheduler that sorts the frontier in place (sort_values with
\* inplace=True) before it takes the batch
FetchNextBatch_in_place ==
  /\ pc = "loop"
  /\ frontier' = [k \in 1..Len(frontier) |->
                    frontier[sort_values(frontier, 1..Len(frontier))[k]]]
  /\ req_batch' = fetch_next_doc_batch(frontier)
  /\ responses' = [k \in 1..Len(req_batch') |-> InFlight]
  /\ attempts' = [k \in 1..Len(req_batch') |-> 0]
  /\ pc' = IF req_batch' = <<>> THEN "done" ELSE "gather"
  /\ pos' = 1
  /\ UNCHANGED <<disk, html_dir, crashes, probe>>

\* "while req_batch := self.fetch_next_doc_batch()": an empty batch ends the
\* loop, any other is dispatched with asyncio.gather
FetchNextBatch ==
  /\ pc = "loop"
  /\ req_batch' = fetch_next_doc_batch(frontier)
  /\ responses' = [k \in 1..Len(req_batch') |-> InFlight]
  /\ attempts' = [k \in 1..Len(req_batch') |-> 0]
  /\ pc' = IF req_batch' = <<>> THEN "done" ELSE "gather"
  /\ pos' = 1
  /\ UNCHANGED <<frontier, disk, html_dir, crashes, probe>>

AllResolved(rs) == \A k \in 1..Len(rs) : rs[k].kind # "inflight"

\* the result loop entered as soon as one request has returned
Resolve_early(k, r) ==
  /\ responses' = [responses EXCEPT ![k] = r]
  /\ attempts' = [attempts EXCEPT ![k] = 0]
  /\ pc' = "process"

\* a gather in which a request that gives up cancels the requests still in
\* flight, which then yield None as well
Resolve_cancel_siblings(k, r) ==
  /\ responses' = [j \in 1..Len(responses) |->
                     IF j = k THEN r
                     ELSE IF r.kind = "none" /\ responses[j].kind = "inflight"
                     THEN NoneResponse
                     ELSE responses[j]]
  /\ attempts' = [j \in 1..Len(attempts) |->
                    IF responses'[j].kind = "inflight" THEN attempts[j] ELSE 0]
  /\ pc' = IF AllResolved(responses') THEN "process" ELSE "gather"

\* the return of fetch_response(req_batch[k]) with value r; gather returns
\* when every request has returned
Resolve(k, r) ==
  /\ responses' = [responses EXCEPT ![k] = r]
  /\ attempts' = [attempts EXCEPT ![k] = 0]
  /\ pc' = IF AllResolved(responses') THEN "process" ELSE "gather"

\* one attempt of _get for request k succeeds
GetSucceeds(k) ==
  /\ pc = "gather"
  /\ k \in 1..Len(req_batch)
  /\ responses[k].kind = "inflight"
  /\ \E r \in ResponsesOf(req_batch[k].url) : Resolve(k, r)
  /\ UNCHANGED <<frontier, disk, html_dir, req_batch, pos, crashes, probe>>

\* _get with stop_after_attempt(4)
GetFails_fourth_attempt(k) ==
  /\ pc = "gather"
  /\ k \in 1..Len(req_batch)
  /\ responses[k].kind = "inflight"
  /\ IF attempts[k] + 1 >= MaxAttempts + 1
     THEN Resolve(k, NoneResponse)
     ELSE /\ attempts' = [attempts EXCEPT ![k] = attempts[k] + 1]
          /\ UNCHANGED <<responses, pc>>
  /\ UNCHANGED <<frontier, disk, html_dir, req_batch, pos, crashes, probe>>

\* one attempt of _get for request k times out or raises; after
\* stop_after_attempt(3) tenacity raises RetryError and fetch_response
\* returns None
GetFails(k) ==
  /\ pc = "gather"
  /\ k \in 1..Len(req_batch)
  /\ responses[k].kind = "inflight"
  /\ IF attempts[k] + 1 >= MaxAttempts
     THEN Resolve(k, NoneResponse)
     ELSE /\ attempts' = [attempts EXCEPT ![k] = attempts[k] + 1]
          /\ UNCHANGED <<responses, pc>>
  /\ UNCHANGED <<frontier, disk, html_dir, req_batch, pos, crashes, probe>>

\* the result loop without save_response
ProcessResult_no_store ==
  /\ pc = "process"
  /\ pos <= Len(req_batch)
  /\ \E keys \in [0..Len(responses[pos].page.links) -> Keys] :
       frontier' = ProcessOne(frontier, Now(frontier), req_batch[pos],
                             responses[pos], keys)
  /\ pos' = pos + 1
  /\ pc' = IF pos = Len(req_batch) THEN "save" ELSE "process"
  /\ UNCHANGED <<disk, html_dir, req_batch, responses, attempts, crashes,
                 probe>>

\* the result loop with save_frontier inside the loop body
ProcessResult_saving ==
  /\ pc = "process"
  /\ pos <= Len(req_batch)
  /\ \E keys \in [0..Len(responses[pos].page.links) -> Keys] :
       frontier' = ProcessOne(frontier, Now(frontier), req_batch[pos],
                             responses[pos], keys)
  /\ html_dir' = IF Rejected(responses[pos]) THEN html_dir
                 ELSE html_dir \cup {req_batch[pos].doc_id}
  /\ disk' = File(to_csv(frontier'))
  /\ pos' = pos + 1
  /\ pc' = IF pos = Len(req_batch) THEN "save" ELSE "process"
  /\ UNCHANGED <<req_batch, responses, attempts, crashes, probe>>

\* the result loop taking the results from the last request to the first
ProcessResult_reversed ==
  /\ pc = "process"
  /\ pos <= Len(req_batch)
  /\ \E keys \in [0..Len(responses[Len(req_batch) + 1 - pos].page.links)
                    -> Keys] :
       frontier' = ProcessOne(frontier, Now(frontier),
                             req_batch[Len(req_batch) + 1 - pos],
                             responses[Len(req_batch) + 1 - pos], keys)
  /\ html_dir' = IF Rejected(responses[Len(req_batch) + 1 - pos])
                 THEN html_dir
                 ELSE html_dir \cup {req_batch[Len(req_batch) + 1 - pos].doc_id}
  /\ pos' = pos + 1
  /\ pc' = IF pos = Len(req_batch) THEN "save" ELSE "process"
  /\ UNCHANGED <<disk, req_batch, responses, attempts, crashes, probe>>

\* the body of the result loop for the pair at pos
ProcessResult ==
  /\ pc = "process"
  /\ pos <= Len(req_batch)
  /\ \E keys \in [0..Len(responses[pos].page.links) -> Keys] :
       frontier' = ProcessOne(frontier, Now(frontier), req_batch[pos],
                             responses[pos], keys)
  /\ html_dir' = IF Rejected(responses[pos]) THEN html_dir
                 ELSE html_dir \cup {req_batch[pos].doc_id}
  /\ pos' = pos + 1
  /\ pc' = IF pos = Len(req_batch) THEN "save" ELSE "process"
  /\ UNCHANGED <<disk, req_batch, responses, attempts, crashes, probe>>

\* Crawler.save_frontier after the result loop; the iteration of the while
\* loop ends, and its req_batch and responses are not read again
SaveFrontier ==
  /\ pc = "save"
  /\ disk' = File(to_csv(frontier))
  /\ pc' = "loop"
  /\ req_batch' = <<>>
  /\ responses' = <<>>
  /\ attempts' = <<>>
  /\ pos' = 1
  /\ UNCHANGED <<frontier, html_dir, crashes, probe>>

\* the files a stop during to_csv may leave: to_csv opens the file for
\* writing, which truncates it, and writes the rows in order
TornFiles(f) == {File(SubSeq(to_csv(f), 1, n)) : n \in 0..(Len(f) - 1)}

\* the process stops (killed, power loss): memory is lost, the files stay
Crash ==
  /\ pc # "down"
  /\ crashes < MaxCrashes
  /\ crashes' = crashes + 1
  /\ pc' = "down"
  /\ disk' \in (IF pc = "save" THEN {disk} \cup TornFiles(frontier)
                ELSE {disk})
  /\ html_dir' \in (IF pc = "process" /\ pos <= Len(req_batch)
                       /\ ~Rejected(responses[pos])
                    THEN {html_dir, html_dir \cup {req_batch[pos].doc_id}}
                    ELSE {html_dir})
  /\ frontier' = <<>>
  /\ req_batch' = <<>>
  /\ responses' = <<>>
  /\ attempts' = <<>>
  /\ pos' = 1
  /\ UNCHANGED probe

\* Crawler.__init__ with the same run_id: load_frontier
Restart ==
  /\ pc = "down"
  /\ IF disk.exists
     THEN frontier' = load_frontier(disk, SeedUrls, <<>>, 0)
     ELSE \E keys \in [1..Len(SeedUrls) -> Keys] :
            frontier' = load_frontier(disk, SeedUrls, keys, 0)
  /\ pc' = "loop"
  /\ UNCHANGED <<disk, html_dir, req_batch, responses, attempts, pos,
                 crashes, probe>>

\* one run of Crawler.run
Next ==
  \/ FetchNextBatch
  \/ \E k \in 1..BatchSize : GetSucceeds(k)
  \/ \E k \in 1..BatchSize : GetFails(k)
  \/ ProcessResult
  \/ SaveFrontier

Spec == Init /\ [][Next]_vars

\* the loop moves on to its next stage: fetch_next_doc_batch returns;
\* gather returns, since every attempt of _get ends (asyncio.timeout) and
\* tenacity stops after the third; the result loop is over a finite list;
\* to_csv returns
StageEnds ==
  pc # "done" /\ pc' \in {"loop", "gather", "process", "save", "done"}

\* one run in which no stage of the loop lasts forever
SpecLive == Init /\ [][Next]_vars /\ WF_pc(StageEnds)

\* runs that may be stopped and started again with the same run_id
NextCrash ==
  \/ FetchNextBatch
  \/ \E k \in 1..BatchSize : GetSucceeds(k)
  \/ \E k \in 1..BatchSize : GetFails(k)
  \/ ProcessResult
  \/ SaveFrontier
  \/ Crash
  \/ Restart

SpecCrash == Init /\ [][NextCrash]_vars

\* ------------------------------------------------- the URL helpers alone
\* URLs the helpers are called with: with and without scheme and host,
\* hosts of the denied patterns and beside them, a path with a ";"
\* parameter, with and without query and fragment
ProbeSchemes == {"https", "http", "ftp", ""}

ProbeHosts ==
  {HostW, HostK, <<"en", "wikipedia", "org">>, <<"de", "wikipedia", "org">>,
   <<"en", "wikivoyage", "org">>, <<"wikipedia", "org">>,
   <<"www", "facebook", "com">>, <<>>}

ProbePaths == {"/a", "/a;v=1"}

ProbeQueries == {"", "q=1"}

ProbeFragments == {"", "f"}

ProbeUrls ==
  {MkURL(s, h, p, q, f) :
     s \in ProbeSchemes, h \in ProbeHosts, p \in ProbePaths,
     q \in ProbeQueries, f \in ProbeFragments}

\* a pair of URLs of the same scheme and host is given to the helpers
InitUrl ==
  /\ frontier = <<>>
  /\ disk = NoFile
  /\ html_dir = {}
  /\ pc = "probe"
  /\ req_batch = <<>>
  /\ responses = <<>>
  /\ attempts = <<>>
  /\ pos = 1
  /\ crashes = 0
  /\ \E u1, u2 \in ProbeUrls :
       /\ u1.scheme = u2.scheme /\ u1.host = u2.host
       /\ probe = [fn |-> "input", args |-> <<u1, u2>>, ret |-> <<>>]

Called(fn, args, ret) ==
  /\ probe' = [fn |-> fn, args |-> args, ret |-> ret]
  /\ UNCHANGED <<frontier, disk, html_dir, pc, req_batch, responses,
                 attempts, pos, crashes>>

\* clean_url(u1)
CallCleanUrl ==
  /\ probe.fn = "input"
  /\ Called("clean_url", <<probe.args[1]>>, <<clean_url(probe.args[1])>>)

\* clean_url of what clean_url(u1) returned
CallCleanUrlAgain ==
  /\ probe.fn = "clean_url"
  /\ Called("clean_url_again", <<probe.args[1], probe.ret[1]>>,
            <<clean_url(probe.ret[1])>>)

\* create_id_for_url(clean_url(u)) for both URLs, as add_to_frontier's
\* callers do
CallCreateId ==
  /\ probe.fn = "input"
  /\ Called("create_id_for_url", probe.args,
            <<create_id_for_url(clean_url(probe.args[1])),
              create_id_for_url(clean_url(probe.args[2]))>>)

\* is_url_valid(u1)
CallIsUrlValid ==
  /\ probe.fn = "input"
  /\ Called("is_url_valid", <<probe.args[1]>>,
            <<is_url_valid(probe.args[1])>>)

NextUrl ==
  \/ CallCleanUrl
  \/ CallCleanUrlAgain
  \/ CallCreateId
  \/ CallIsUrlValid

SpecUrl == InitUrl /\ [][NextUrl]_vars

\* ------------------------------------------- the frontier operations alone
\* update_doc and add_to_frontier called on a frontier of one seed record
\* and, or not, one record discovered under it, in any status
Statuses == {"pending", "completed", "failed"}

OpSeed == Https(HostW, "/")

OpChild == Https(HostV, "/")

OpOther == Https(HostX, "/")

\* the seed's row: depth 0, priority high, its own root
OpSeedRows ==
  {[NewRow(OpSeed, PriorityHigh, 0, create_id_for_url(OpSeed), 0, 0)
      EXCEPT !.status = st] : st \in Statuses}

\* the row of a URL found later under that seed
OpChildRows ==
  {[NewRow(OpChild, p, d, create_id_for_url(OpSeed), k, 0)
      EXCEPT !.status = st] :
     p \in {PriorityLow, PriorityHigh}, d \in 1..MaxDepth, k \in Keys,
     st \in Statuses}

OpFrontiers ==
  {<<a>> : a \in OpSeedRows} \cup
  {<<a, b>> : a \in OpSeedRows, b \in OpChildRows}

\* the keyword arguments update_doc is called with in crawl.py
OpUpdates ==
  {[status |-> "failed"],
   [features_tubingen |-> TRUE, features_english |-> TRUE],
   [depth |-> 1, priority |-> PriorityHigh]}

InitFrontier ==
  /\ frontier \in OpFrontiers
  /\ disk = NoFile
  /\ html_dir = {}
  /\ pc = "probe"
  /\ req_batch = <<>>
  /\ responses = <<>>
  /\ attempts = <<>>
  /\ pos = 1
  /\ crashes = 0
  /\ probe = [fn |-> "input", args |-> <<>>, ret |-> <<>>]

\* update_doc(doc_id, **update_dict) on the frontier; probe keeps the
\* frontier before the call and the arguments
CallUpdateDoc ==
  /\ probe.fn = "input"
  /\ \E url \in {OpSeed, OpChild, OpOther}, upd \in OpUpdates :
       /\ frontier' = update_doc(frontier, Now(frontier),
                                 create_id_for_url(url), upd)
       /\ probe' = [fn |-> "update_doc",
                    args |-> <<frontier, create_id_for_url(url), upd>>,
                    ret |-> <<>>]
  /\ UNCHANGED <<disk, html_dir, pc, req_batch, responses, attempts, pos,
                 crashes>>

\* add_to_frontier(url, priority, depth, root) on the frontier
CallAddToFrontier ==
  /\ probe.fn = "input"
  /\ \E url \in {OpSeed, OpChild, OpOther},
        priority \in {PriorityLow, PriorityHigh}, depth \in 1..MaxDepth,
        key \in Keys :
       /\ frontier' = add_to_frontier(frontier, Now(frontier), url, priority,
                                      depth, create_id_for_url(OpOther), key)
       /\ probe' = [fn |-> "add_to_frontier",
                    args |-> <<frontier, url, priority, depth,
                               create_id_for_url(OpOther), key>>,
                    ret |-> <<>>]
  /\ UNCHANGED <<disk, html_dir, pc, req_batch, responses, attempts, pos,
                 crashes>>

NextFrontier ==
  \/ CallUpdateDoc
  \/ CallAddToFrontier

SpecFrontier == InitFrontier /\ [][NextFrontier]_vars

\* ------------------------------------------------- the scheduler alone
\* fetch_next_doc_batch called on a frontier of four records: a seed, two
\* records of a second main_domain and one of a third, with any priority,
\* depth and key
BatchSecond == Https(HostV, "/b")

BatchRowsOf(url, statuses) ==
  {[NewRow(url, p, d, create_id_for_url(OpSeed), k, 0)
      EXCEPT !.status = st] :
     p \in {PriorityLow, PriorityHigh}, d \in 1..MaxDepth, k \in Keys,
     st \in statuses}

BatchSeedRows ==
  {[NewRow(OpSeed, PriorityHigh, 0, create_id_for_url(OpSeed), k, 0)
      EXCEPT !.status = st] : k \in Keys, st \in {"pending", "completed"}}

BatchFrontiers ==
  {<<a, b, c, d>> :
     a \in BatchSeedRows,
     b \in BatchRowsOf(BatchSecond, {"pending"}),
     c \in BatchRowsOf(OpChild, {"pending", "failed"}),
     d \in BatchRowsOf(OpOther, {"pending"})}

InitBatch ==
  /\ frontier \in BatchFrontiers
  /\ disk = NoFile
  /\ html_dir = {}
  /\ pc = "probe"
  /\ req_batch = <<>>
  /\ responses = <<>>
  /\ attempts = <<>>
  /\ pos = 1
  /\ crashes = 0
  /\ probe = [fn |-> "input", args |-> <<>>, ret |-> <<>>]

\* req_batch = self.fetch_next_doc_batch()
CallFetchNextDocBatch ==
  /\ probe.fn = "input"
  /\ req_batch' = fetch_next_doc_batch(frontier)
  /\ probe' = [fn |-> "fetch_next_doc_batch", args |-> <<>>, ret |-> <<>>]
  /\ UNCHANGED <<frontier, disk, html_dir, pc, responses, attempts, pos,
                 crashes>>

NextBatch == CallFetchNextDocBatch

SpecBatch == InitBatch /\ [][NextBatch]_vars

\* ------------------------------------------------------------------ claims
Terminal == {"completed", "failed"}

BatchIds == {req_batch[k].doc_id : k \in 1..Len(req_batch)}

\* the row of request k of the batch
BatchRow(k) == Loc(frontier, req_batch[k].doc_id)

\* C1: once a record is completed or failed no step of the run changes its
\* status; a status changes only from pending to completed or to failed, and
\* no record disappears.
C1_TerminalStatusStable ==
  [][\A id \in DocIds(frontier) :
       /\ HasDoc(frontier', id)
       /\ Loc(frontier, id).status # Loc(frontier', id).status
            => /\ Loc(frontier, id).status = "pending"
               /\ Loc(frontier', id).status \in Terminal]_vars

\* a page processed in this batch proposed the URL of a record that was
\* terminal before the batch, and the record is terminal still
C1_Witness ==
  /\ pc \in {"process", "save"}
  /\ \E k \in 1..(pos - 1) :
       /\ ~Rejected(responses[k])
       /\ \E n \in 1..Len(Proposals(responses[k])) :
            LET id == create_id_for_url(Proposals(responses[k])[n].url)
            IN /\ id \notin BatchIds
               /\ HasDoc(frontier, id)
               /\ Loc(frontier, id).status \in Terminal

\* depth no larger and priority no smaller in b than in a, for the records
\* pending in both
PendingMonotone(a, b) ==
  \A id \in DocIds(a) :
    (HasDoc(b, id) /\ Loc(a, id).status = "pending"
       /\ Loc(b, id).status = "pending")
      => /\ Loc(b, id).depth <= Loc(a, id).depth
         /\ Loc(b, id).priority >= Loc(a, id).priority

\* the frontier after the first n calls of add_to_frontier for the result
\* at pos
AfterCalls(keys, n) ==
  AddProposals(MarkFeatures(frontier, Now(frontier), req_batch[pos],
                            responses[pos]),
               Now(frontier), req_batch[pos], Proposals(responses[pos]),
               keys, n)

ProcessingPage ==
  pc = "process" /\ pos <= Len(req_batch) /\ ~Rejected(responses[pos])

\* C2: from one call of add_to_frontier to the next, and from one step of
\* the run to the next, the depth of a record that stays pending never
\* increases and its priority never decreases.
C2_PendingMonotone ==
  /\ [](ProcessingPage =>
          \A keys \in [0..Len(responses[pos].page.links) -> Keys] :
            \A n \in 1..Len(Proposals(responses[pos])) :
              PendingMonotone(AfterCalls(keys, n - 1), AfterCalls(keys, n)))
  /\ [][PendingMonotone(frontier, frontier')]_vars

\* a call of add_to_frontier for the page being processed lowers the depth
\* of a record that is pending
C2_Witness ==
  /\ ProcessingPage
  /\ \E keys \in [0..Len(responses[pos].page.links) -> Keys] :
       \E n \in 1..Len(Proposals(responses[pos])) :
         \E id \in DocIds(AfterCalls(keys, n - 1)) :
           /\ Loc(AfterCalls(keys, n - 1), id).status = "pending"
           /\ Loc(AfterCalls(keys, n), id).depth
                < Loc(AfterCalls(keys, n - 1), id).depth

\* C3: no two requests of a batch belong to records with the same
\* main_domain.
C3_DomainDiversity ==
  \A j, k \in 1..Len(req_batch) :
    j # k => BatchRow(j).main_domain # BatchRow(k).main_domain

\* a batch of two or more was scheduled while two eligible records shared a
\* main_domain
C3_Witness ==
  /\ pc = "gather"
  /\ Len(req_batch) >= 2
  /\ \E i, j \in Eligible(frontier) :
       i # j /\ frontier[i].main_domain = frontier[j].main_domain

\* C4: a batch never holds more than batch_size requests.
C4_BatchSizeBound == Len(req_batch) <= BatchSize

\* a batch was scheduled while the eligible records had more than batch_size
\* distinct main_domains
C4_Witness ==
  /\ pc = "gather"
  /\ Len(req_batch) = BatchSize
  /\ Cardinality({frontier[i].main_domain : i \in Eligible(frontier)})
       > BatchSize

\* C5: at the time of scheduling every request of the batch refers to a
\* record that is pending with depth < max_depth.
C5_DepthGating ==
  pc = "gather" =>
    \A k \in 1..Len(req_batch) :
      /\ HasDoc(frontier, req_batch[k].doc_id)
      /\ BatchRow(k).status = "pending"
      /\ BatchRow(k).depth < MaxDepth

\* a batch with room left was scheduled (or the loop ended on an empty one)
\* while a record of a main_domain not in the batch was pending at depth
\* max_depth, and another record was terminal
C5_Witness ==
  /\ pc \in {"gather", "done"}
  /\ Len(req_batch) < BatchSize
  /\ \E i \in 1..Len(frontier) :
       /\ frontier[i].status = "pending"
       /\ frontier[i].depth >= MaxDepth
       /\ \A k \in 1..Len(req_batch) :
            BatchRow(k).main_domain # frontier[i].main_domain
  /\ \E i \in 1..Len(frontier) : frontier[i].status \in Terminal

\* every response a successful GET of the row's URL may return is accepted,
\* so the row can only have failed by exhausting the attempts of _get
OnlyFailsByExhaustion(row) ==
  \A r \in ResponsesOf(ParseURL(row.url)) : ~Rejected(r)

\* C6: fetch_response returns None exactly when the third attempt of _get
\* fails; once the result loop has passed such a request its record is
\* failed, a failed record stays failed, and no batch scheduled later in the
\* run holds a failed record.
C6_RetryExhaustion ==
  /\ [](pc \in {"process", "save"} =>
          \A k \in 1..Len(req_batch) :
            (k < pos /\ responses[k].kind = "none")
              => BatchRow(k).status = "failed")
  /\ [][/\ \A k \in 1..Len(req_batch) :
             (pc = "gather" /\ pc' \in {"gather", "process"}
                /\ responses[k].kind = "inflight")
               => (responses'[k].kind = "none"
                     <=> (attempts'[k] = 0 /\ attempts[k] + 1 = MaxAttempts
                            /\ responses'[k].kind # "response"))
        /\ \A id \in DocIds(frontier) :
             Loc(frontier, id).status = "failed"
               => /\ HasDoc(frontier', id)
                  /\ Loc(frontier', id).status = "failed"
                  /\ pc = "loop"
                       => id \notin {req_batch'[k].doc_id :
                                       k \in 1..Len(req_batch')}]_vars

\* a later batch is in flight while a record that failed by exhaustion is in
\* the frontier
C6_Witness ==
  /\ pc = "gather"
  /\ \E i \in 1..Len(frontier) :
       /\ frontier[i].status = "failed"
       /\ OnlyFailsByExhaustion(frontier[i])
       /\ frontier[i].doc_id \notin BatchIds

\* C7: processing an HTML page of allowed size that has no match for the
\* relevance pattern adds no row, changes no other row, leaves both feature
\* flags of its own row false and sets its status to completed.
C7_DeadEndPruning ==
  [][(ProcessingPage /\ ~responses[pos].page.relevant /\ pos' = pos + 1) =>
       LET id == req_batch[pos].doc_id
       IN /\ Len(frontier') = Len(frontier)
          /\ \A i \in 1..Len(frontier) :
               /\ frontier'[i].doc_id = frontier[i].doc_id
               /\ frontier[i].doc_id # id => frontier'[i] = frontier[i]
          /\ Loc(frontier', id).status = "completed"
          /\ ~Loc(frontier', id).features_tubingen
          /\ ~Loc(frontier', id).features_english]_vars

\* an irrelevant page of this batch is completed, and a valid link of it has
\* no record
C7_Witness ==
  /\ pc \in {"process", "save"}
  /\ \E k \in 1..(pos - 1) :
       /\ ~Rejected(responses[k])
       /\ ~responses[k].page.relevant
       /\ BatchRow(k).status = "completed"
       /\ \E n \in 1..Len(responses[k].page.links) :
            LET found == extract_url(responses[k].page.links[n],
                                     responses[k].url)
            IN /\ found.some
               /\ ~HasDoc(frontier, create_id_for_url(found.url))

\* the doc_ids of the links of the response that extract_url accepts
LinkIds(response) ==
  {create_id_for_url(x.url) :
     x \in {y \in {extract_url(response.page.links[n], response.url) :
                     n \in 1..Len(response.page.links)} : y.some}}

\* C8: processing a relevant page that is not English sets features_tubingen
\* and leaves features_english false; every valid link has a record
\* afterwards, a record created for a link has priority low, and a pending
\* record found again keeps its priority; the '/en' URL of the page's origin,
\* when valid, has a record afterwards whose priority is high while it is
\* pending; when it is not valid no record is created for it.
C8_LanguageBranch ==
  [][(ProcessingPage /\ responses[pos].page.relevant
        /\ ~responses[pos].page.english /\ pos' = pos + 1) =>
       LET request == req_batch[pos]
           response == responses[pos]
           url_en == EnglishVariant(response.url)
           en_ids == IF is_url_valid(url_en)
                     THEN {create_id_for_url(url_en)} ELSE {}
           created == DocIds(frontier') \ DocIds(frontier)
           found == (LinkIds(response) \cup en_ids) \cap DocIds(frontier)
       IN /\ Loc(frontier', request.doc_id).features_tubingen
          /\ ~Loc(frontier', request.doc_id).features_english
          /\ Loc(frontier', request.doc_id).status = "completed"
          /\ (LinkIds(response) \cup en_ids) \subseteq DocIds(frontier')
          /\ created \subseteq (LinkIds(response) \cup en_ids)
          /\ \A id \in created :
               /\ Loc(frontier', id).status = "pending"
               /\ Loc(frontier', id).depth = request.depth + 1
               /\ Loc(frontier', id).root = request.root
               /\ Loc(frontier', id).priority
                    = (IF id \in en_ids THEN PriorityHigh ELSE PriorityLow)
          /\ \A id \in found :
               (id # request.doc_id /\ Loc(frontier, id).status = "pending")
                 => /\ Loc(frontier', id).depth
                         = Min(Loc(frontier, id).depth, request.depth + 1)
                    /\ Loc(frontier', id).priority
                         = (IF id \in en_ids THEN PriorityHigh
                            ELSE Loc(frontier, id).priority)]_vars

\* row i is a relevant page that is not English, processed
NonEnglishDone(i) ==
  /\ frontier[i].status = "completed"
  /\ frontier[i].features_tubingen
  /\ ~frontier[i].features_english

\* row j was created while row i was processed
CreatedBy(j, i) == frontier[j].created.at = frontier[i].updated.at

\* three pages that are not English have been processed: one created a
\* record for a link, at priority low; one created the record of its '/en'
\* URL, at priority high; the '/en' URL of one is not valid
C8_Witness ==
  /\ \E i, j \in 1..Len(frontier) :
       /\ NonEnglishDone(i) /\ CreatedBy(j, i)
       /\ frontier[j].priority = PriorityLow
  /\ \E i, j \in 1..Len(frontier) :
       /\ NonEnglishDone(i) /\ CreatedBy(j, i)
       /\ frontier[j].priority = PriorityHigh
       /\ frontier[j].doc_id
            = create_id_for_url(EnglishVariant(ParseURL(frontier[i].url)))
  /\ \E i \in 1..Len(frontier) :
       /\ NonEnglishDone(i)
       /\ ~is_url_valid(EnglishVariant(ParseURL(frontier[i].url)))

\* the canonical URL of a row: clean_url of its url column
CanonicalUrl(row) == clean_url(ParseURL(row.url))

\* C9: any two distinct rows of the frontier have distinct canonical URLs,
\* also after the url of a completed row has been set to the URL of the
\* response.
C9_OneRecordPerCanonicalUrl ==
  \A i, j \in 1..Len(frontier) :
    i # j => CanonicalUrl(frontier[i]) # CanonicalUrl(frontier[j])

\* C10: the file of the run changes only when save_frontier writes the
\* frontier as it stands at the end of a batch, so a stop at any point leaves
\* it as the last save_frontier wrote it; a crawler started again loads the
\* rows of that file, its terminal rows are terminal, and the batches
\* scheduled afterwards hold pending records only.
C10_RestartLoadsLastSnapshot ==
  [][/\ (pc = "save" /\ pc' = "loop") => disk' = File(to_csv(frontier))
     /\ ~(pc = "save" /\ pc' = "loop") => disk' = disk
     /\ (pc = "down" /\ pc' = "loop" /\ disk.exists)
          => /\ to_csv(frontier') = disk.lines
             /\ \A i \in 1..Len(frontier') :
                  frontier'[i].status \in Terminal
                    <=> disk.lines[i][7] \in Terminal
     /\ (pc = "loop" /\ pc' = "gather")
          => \A k \in 1..Len(req_batch') :
               Loc(frontier, req_batch'[k].doc_id).status = "pending"]_vars

\* the status column of the snapshot's line for doc_id id
SnapshotStatus(id) ==
  disk.lines[CHOOSE i \in 1..Len(disk.lines) : disk.lines[i][1] = id][7]

\* C11: the snapshot is written only by save_frontier, after the last result
\* of the batch and before the next scheduling, and it is the frontier as it
\* stands then; so once a batch has been processed the snapshot equals the
\* frontier whenever a batch is scheduled or in flight, and while a batch is
\* being processed the snapshot shows all of its records as pending.
C11_SnapshotAtBatchBoundary ==
  /\ []((pc \in {"loop", "gather", "done"}
           /\ \E i \in 1..Len(frontier) : frontier[i].status \in Terminal)
          => disk.exists /\ disk.lines = to_csv(frontier))
  /\ []((pc \in {"gather", "process", "save"} /\ disk.exists)
          => \A k \in 1..Len(req_batch) :
               SnapshotStatus(req_batch[k].doc_id) = "pending")
  /\ [][disk' # disk =>
          /\ pc = "save" /\ pc' = "loop"
          /\ pos = Len(req_batch) + 1
          /\ \A k \in 1..Len(req_batch) : BatchRow(k).status \in Terminal
          /\ frontier' = frontier
          /\ disk' = File(to_csv(frontier))]_vars

\* a later batch is half processed: the frontier has moved on and the
\* snapshot is still the one of the batch before
C11_Witness ==
  /\ pc = "process"
  /\ pos = 2
  /\ Len(req_batch) = 2
  /\ disk.exists
  /\ disk.lines # to_csv(frontier)
  /\ BatchRow(1).status \in Terminal

\* C12: the frontier changes only in the result loop, when every request
\* of the batch has returned, and by the processing of the result at pos,
\* which makes that record terminal; the results before pos are processed and
\* those from pos on are not, so the results are taken in request order.
C12_SingleMutator ==
  /\ [](pc = "gather" =>
          \A k \in 1..Len(req_batch) : BatchRow(k).status = "pending")
  /\ [](pc = "process" =>
          /\ AllResolved(responses)
          /\ \A k \in 1..Len(req_batch) :
               k < pos <=> BatchRow(k).status \in Terminal)
  /\ [][frontier' # frontier =>
          /\ pc = "process"
          /\ AllResolved(responses)
          /\ pos <= Len(req_batch)
          /\ pos' = pos + 1
          /\ Loc(frontier, req_batch[pos].doc_id).status = "pending"
          /\ Loc(frontier', req_batch[pos].doc_id).status \in Terminal]_vars

\* the second request of a batch has returned a page with links to add while
\* the first is still in flight
C12_Witness ==
  /\ pc = "gather"
  /\ Len(req_batch) = 2
  /\ responses[1].kind = "inflight"
  /\ responses[2].kind = "response"
  /\ ~Rejected(responses[2])
  /\ \E n \in 1..Len(Proposals(responses[2])) :
       ~HasDoc(frontier, create_id_for_url(Proposals(responses[2])[n].url))

\* some record is pending with depth < max_depth
WorkLeft ==
  \E i \in 1..Len(frontier) :
    frontier[i].status = "pending" /\ frontier[i].depth < MaxDepth

\* C13: the loop ends exactly when fetch_next_doc_batch returns an empty
\* batch, and the batch is empty exactly when no record is pending with
\* depth < max_depth; so when the loop has ended every record is completed,
\* failed, or pending with depth >= max_depth.
C13_StopsWhenNoWorkLeft ==
  /\ [](pc = "done" => req_batch = <<>> /\ ~WorkLeft)
  /\ [][/\ pc = "loop" => /\ pc' = "done" <=> req_batch' = <<>>
                          /\ req_batch' = <<>> <=> ~WorkLeft
        /\ pc' = "done" => pc = "loop"]_vars

\* the loop has ended with completed and failed records and one that is
\* pending at depth max_depth
C13_Witness ==
  /\ pc = "done"
  /\ \E i \in 1..Len(frontier) :
       frontier[i].status = "pending" /\ frontier[i].depth >= MaxDepth
  /\ \E i \in 1..Len(frontier) : frontier[i].status = "completed"
  /\ \E i \in 1..Len(frontier) : frontier[i].status = "failed"

\* the URLs of the modelled web that can get a record, and their doc_ids
WebUrls ==
  {Https(HostW, "/"), Https(HostU, "/"), Https(HostW, "/en"),
   Https(HostV, "/"), Https(HostX, "/"), Https(HostX, "/en")}

WebIds == {create_id_for_url(u) : u \in WebUrls}

\* C14: with a finite web and every attempt of a fetch ending, the loop
\* ends, and every record that is pending with depth < max_depth becomes
\* completed or failed.
C14_RunTerminates ==
  /\ [](pc \in {"loop", "gather", "process", "save", "done"})
  /\ [](pc = "gather" =>
          \E k \in 1..Len(req_batch) : responses[k].kind = "inflight")
  /\ [](pc = "process" => pos <= Len(req_batch))
  /\ <>(pc = "done")
  /\ \A id \in WebIds :
       (HasDoc(frontier, id) /\ Loc(frontier, id).status = "pending"
          /\ Loc(frontier, id).depth < MaxDepth)
         ~> (HasDoc(frontier, id) /\ Loc(frontier, id).status \in Terminal)

\* the loop has ended; a record of low priority is completed, and so are
\* two records of one main_domain
C14_Witness ==
  /\ pc = "done"
  /\ DocIds(frontier) \subseteq WebIds
  /\ \E i \in 1..Len(frontier) :
       frontier[i].status = "completed" /\ frontier[i].priority = PriorityLow
  /\ \E i, j \in 1..Len(frontier) :
       /\ i # j
       /\ frontier[i].main_domain = frontier[j].main_domain
       /\ frontier[i].status = "completed"
       /\ frontier[j].status = "completed"

\* C15: every record that is completed, in the frontier or in the snapshot
\* file, has a raw page file under its doc_id, also after the process was
\* stopped and started again.
C15_RawPageStored ==
  /\ \A i \in 1..Len(frontier) :
       frontier[i].status = "completed" => frontier[i].doc_id \in html_dir
  /\ \A i \in 1..Len(disk.lines) :
       disk.lines[i][7] = "completed" => disk.lines[i][1] \in html_dir

\* after a stop and a restart: a completed record with features_tubingen has
\* its file, and a file is there whose record is not completed
C15_Witness ==
  /\ crashes >= 1
  /\ pc \in {"gather", "process", "save"}
  /\ \E i \in 1..Len(frontier) :
       /\ frontier[i].status = "completed"
       /\ frontier[i].features_tubingen
       /\ frontier[i].doc_id \in html_dir
  /\ \E id \in html_dir :
       ~HasDoc(frontier, id) \/ Loc(frontier, id).status = "pending"

DeniedWikiOtherLanguage(host) ==
  \E i \in 2..Len(host) :
    /\ i + 1 <= Len(host)
    /\ host[i] \in WikiLabels
    /\ host[i + 1] = "org"
    /\ host[i - 1] \notin {"en", "de"}

\* C18: is_url_valid(u) is true exactly when u is absolute, its scheme is
\* http or https and its host matches no denied pattern, where of the
\* Wikimedia hosts only the subdomains other than en and de are denied: a URL
\* on en.wikipedia.org, en.wikivoyage.org or de.wikipedia.org is valid, one
\* on fr.wikipedia.org is not.
C18_IsUrlValid ==
  probe.fn = "is_url_valid" =>
    (probe.ret[1] <=>
       /\ IsAbsolute(probe.args[1])
       /\ probe.args[1].scheme \in {"http", "https"}
       /\ ~DeniedWikiOtherLanguage(probe.args[1].host)
       /\ ~DeniedOther(probe.args[1].host))

\* C19: whatever the responses of a batch are, the result loop takes every
\* one of them and leaves its record failed (no response, not HTML, too
\* large) or completed (any other page, also one that cannot be parsed);
\* after the last the snapshot is written and the next batch is scheduled.
C19_LoopSurvivesEveryOutcome ==
  /\ [](pc = "process" => pos <= Len(req_batch))
  /\ [](pc = "save" =>
          \A k \in 1..Len(req_batch) : BatchRow(k).status \in Terminal)
  /\ [][/\ pc = "process" =>
             /\ pos' = pos + 1
             /\ pc' = (IF pos = Len(req_batch) THEN "save" ELSE "process")
             /\ Loc(frontier', req_batch[pos].doc_id).status
                  = (IF Rejected(responses[pos]) THEN "failed"
                     ELSE "completed")
        /\ pc = "save" => pc' = "loop" /\ disk' = File(to_csv(frontier))
        /\ pc = "loop" => pc' \in {"gather", "done"}]_vars

\* a batch is processed in which one request got no response and another a
\* body that cannot be parsed
C19_Witness ==
  /\ pc = "save"
  /\ \E k \in 1..Len(req_batch) : responses[k].kind = "none"
  /\ \E k \in 1..Len(req_batch) :
       /\ responses[k].kind = "response"
       /\ responses[k].page = UnparsablePage
       /\ BatchRow(k).status = "completed"

\* C20: processing a response that is not HTML or is too large sets the
\* status of its record to failed and changes nothing else: no other row, no
\* new row, no feature flag, no url, and no file in html_dir; a failed
\* record is in no batch scheduled afterwards.
C20_RejectedResponse ==
  [][/\ (/\ pc = "process" /\ pos <= Len(req_batch) /\ pos' = pos + 1
         /\ responses[pos].kind = "response"
         /\ (~responses[pos].page.html \/ responses[pos].page.large))
        => /\ Len(frontier') = Len(frontier)
           /\ \A i \in 1..Len(frontier) :
                frontier'[i] =
                  (IF frontier[i].doc_id = req_batch[pos].doc_id
                   THEN [frontier[i] EXCEPT
                           !.status = "failed",
                           !.updated = Timestamp(Now(frontier))]
                   ELSE frontier[i])
           /\ html_dir' = html_dir
           /\ req_batch[pos].doc_id \notin html_dir'
     /\ pc = "loop"
        => \A k \in 1..Len(req_batch') :
             Loc(frontier, req_batch'[k].doc_id).status # "failed"]_vars

\* a batch is processed in which one response was too large and another was
\* not HTML
C20_Witness ==
  /\ pc = "save"
  /\ \E k \in 1..Len(req_batch) :
       /\ responses[k].kind = "response"
       /\ responses[k].page.large
       /\ BatchRow(k).status = "failed"
       /\ req_batch[k].doc_id \notin html_dir
  /\ \E k \in 1..Len(req_batch) :
       /\ responses[k].kind = "response"
       /\ ~responses[k].page.html
       /\ BatchRow(k).status = "failed"
       /\ req_batch[k].doc_id \notin html_dir

\* the n-th call of add_to_frontier for the result at pos
Proposal(n) == Proposals(responses[pos])[n]

\* C21: a call of add_to_frontier for a URL whose record is completed or
\* failed leaves the frontier as it is: no field of that record changes, no
\* other record changes and no record is added.
C21_TerminalRediscoveryNoOp ==
  ProcessingPage =>
    \A keys \in [0..Len(responses[pos].page.links) -> Keys] :
      \A n \in 1..Len(Proposals(responses[pos])) :
        LET before == AfterCalls(keys, n - 1)
            id == create_id_for_url(Proposal(n).url)
        IN (HasDoc(before, id) /\ Loc(before, id).status \in Terminal)
             => AfterCalls(keys, n) = before

\* a call of add_to_frontier for the page being processed proposes, at a
\* higher priority, the URL of a record that is completed
C21_Witness ==
  /\ ProcessingPage
  /\ \E keys \in [0..Len(responses[pos].page.links) -> Keys] :
       \E n \in 1..Len(Proposals(responses[pos])) :
         LET before == AfterCalls(keys, n - 1)
             id == create_id_for_url(Proposal(n).url)
         IN /\ HasDoc(before, id)
            /\ Loc(before, id).status = "completed"
            /\ Loc(before, id).priority < Proposal(n).priority
            /\ AfterCalls(keys, n) = before

\* the canonical forms of the configured seeds that pass is_url_valid
ValidSeeds ==
  {u \in {clean_url(SeedUrls[n]) : n \in 1..Len(SeedUrls)} : is_url_valid(u)}

\* the run is new: the crawler was constructed with no file of the run
NewRun == pc = "loop" /\ ~disk.exists

\* C22: the frontier of a new run holds exactly one record for each distinct
\* canonical seed URL that passes validation and no other record; each has
\* depth 0, priority high, status pending, its own doc_id as root and both
\* feature flags false.
C22_SeedFrontier ==
  NewRun =>
    /\ DocIds(frontier) = {create_id_for_url(u) : u \in ValidSeeds}
    /\ Len(frontier) = Cardinality(ValidSeeds)
    /\ \A i \in 1..Len(frontier) :
         /\ ParseURL(frontier[i].url) \in ValidSeeds
         /\ frontier[i].doc_id = create_id_for_url(ParseURL(frontier[i].url))
         /\ frontier[i].domain = ParseURL(frontier[i].url).host
         /\ frontier[i].depth = 0
         /\ frontier[i].priority = PriorityHigh
         /\ frontier[i].status = "pending"
         /\ frontier[i].root = frontier[i].doc_id
         /\ ~frontier[i].features_tubingen
         /\ ~frontier[i].features_english

\* a new run whose seed set has a seed that fails validation and two seeds
\* with the same canonical form, one of them with a query
C22_Witness ==
  /\ NewRun
  /\ frontier # <<>>
  /\ \E n \in 1..Len(SeedUrls) : ~is_url_valid(clean_url(SeedUrls[n]))
  /\ \E m, n \in 1..Len(SeedUrls) :
       /\ m # n
       /\ clean_url(SeedUrls[m]) = clean_url(SeedUrls[n])
       /\ HasDoc(frontier, create_id_for_url(clean_url(SeedUrls[m])))
  /\ \E n \in 1..Len(SeedUrls) :
       /\ SeedUrls[n].query # ""
       /\ HasDoc(frontier, create_id_for_url(clean_url(SeedUrls[n])))

\* row j is a seed record: depth 0 and its own doc_id as root
IsSeedRecord(j) ==
  frontier[j].depth = 0 /\ frontier[j].root = frontier[j].doc_id

\* C23: no step changes the root of a record, also not the rediscovery of
\* its URL from a page with another root; and the root of every record is
\* the doc_id of a seed record of the frontier.
C23_RootImmutable ==
  /\ [](\A i \in 1..Len(frontier) :
          \E j \in 1..Len(frontier) :
            frontier[j].doc_id = frontier[i].root /\ IsSeedRecord(j))
  /\ [][\A id \in DocIds(frontier) :
          /\ HasDoc(frontier', id)
          /\ Loc(frontier', id).root = Loc(frontier, id).root]_vars

\* a page of this batch proposed the URL of a pending record with another
\* root, and its processing improved that record
C23_Witness ==
  /\ pc \in {"process", "save"}
  /\ \E k \in 1..(pos - 1) :
       /\ ~Rejected(responses[k])
       /\ \E n \in 1..Len(Proposals(responses[k])) :
            LET id == create_id_for_url(Proposals(responses[k])[n].url)
            IN /\ HasDoc(frontier, id)
               /\ Loc(frontier, id).root # req_batch[k].root
               /\ Loc(frontier, id).status = "pending"
               /\ Loc(frontier, id).created.at < Loc(frontier, id).updated.at
               /\ Loc(frontier, id).updated = BatchRow(k).updated

\* C24: update_doc with a doc_id that has no record leaves the frontier as
\* it is: no record is added and no record changes.
C24_UpdateAbsentNoOp ==
  (probe.fn = "update_doc" /\ ~HasDoc(probe.args[1], probe.args[2]))
    => frontier = probe.args[1]

\* C25: for one request _get makes at most three attempts; a further
\* attempt follows only an attempt that failed; the first attempt that
\* succeeds ends the fetch and its response is what fetch_response returns;
\* when the third attempt fails fetch_response returns None, and the batch
\* goes on to the result loop.
C25_BoundedRetry ==
  /\ [](\A k \in 1..Len(attempts) : attempts[k] < MaxAttempts)
  /\ [][pc = "gather" =>
          /\ req_batch' = req_batch
          /\ frontier' = frontier
          /\ pc' = (IF AllResolved(responses') THEN "process" ELSE "gather")
          /\ \A k \in 1..Len(req_batch) :
               IF responses[k].kind # "inflight"
               THEN responses'[k] = responses[k] /\ attempts'[k] = attempts[k]
               ELSE \/ /\ responses'[k] = responses[k]
                       /\ attempts'[k] = attempts[k]
                    \/ /\ responses'[k].kind = "inflight"
                       /\ attempts'[k] = attempts[k] + 1
                       /\ attempts'[k] < MaxAttempts
                    \/ responses'[k] \in ResponsesOf(req_batch[k].url)
                    \/ /\ responses'[k] = NoneResponse
                       /\ attempts[k] = MaxAttempts - 1]_vars

\* two attempts for one request of the batch have failed and the request is
\* still in flight, while the other's first attempt has returned a response
C25_Witness ==
  /\ pc = "gather"
  /\ \E j, k \in 1..Len(req_batch) :
       /\ responses[j].kind = "inflight"
       /\ attempts[j] = MaxAttempts - 1
       /\ responses[k].kind = "response"

\* row a comes strictly before row b by (priority descending, depth
\* ascending, random_sort_key ascending)
KeyBefore(a, b) ==
  \/ a.priority > b.priority
  \/ a.priority = b.priority /\ a.depth < b.depth
  \/ /\ a.priority = b.priority /\ a.depth = b.depth
     /\ a.random_sort_key < b.random_sort_key

\* the records that are pending with depth < max_depth
EligibleRows ==
  {r \in {frontier[i] : i \in 1..Len(frontier)} :
     r.status = "pending" /\ r.depth < MaxDepth}

\* C26: the batch of fetch_next_doc_batch is the eligible records in the
\* order (priority descending, depth ascending, random_sort_key ascending),
\* reduced to the first of each main_domain and cut to the first batch_size:
\* every request is made from an eligible record that no eligible record of
\* its main_domain precedes, the requests are in that order with one per
\* main_domain, the batch has batch_size requests or one for every
\* main_domain, and no eligible record of a main_domain left out precedes a
\* record of the batch.
C26_BatchSelection ==
  probe.fn = "fetch_next_doc_batch" =>
    /\ Len(req_batch)
         = Min(BatchSize, Cardinality({r.main_domain : r \in EligibleRows}))
    /\ \A k \in 1..Len(req_batch) :
         /\ BatchRow(k) \in EligibleRows
         /\ req_batch[k] = ScrapingRequest(BatchRow(k))
         /\ \A r \in EligibleRows :
              r.main_domain = BatchRow(k).main_domain
                => ~KeyBefore(r, BatchRow(k))
         /\ \A j \in 1..(k - 1) :
              /\ BatchRow(j).main_domain # BatchRow(k).main_domain
              /\ ~KeyBefore(BatchRow(k), BatchRow(j))
    /\ \A r \in EligibleRows :
         (\A k \in 1..Len(req_batch) :
            BatchRow(k).main_domain # r.main_domain)
           => \A k \in 1..Len(req_batch) : ~KeyBefore(r, BatchRow(k))

\* a full batch was taken from eligible records of three main_domains: the
\* shallower record comes first, one request is the deeper but
\* higher-priority record of a main_domain with two eligible records, and
\* the record of one main_domain is left out
C26_Witness ==
  /\ probe.fn = "fetch_next_doc_batch"
  /\ Len(req_batch) = BatchSize
  /\ Cardinality({r.main_domain : r \in EligibleRows}) > BatchSize
  /\ \E k \in 1..Len(req_batch), r \in EligibleRows :
       /\ r.main_domain = BatchRow(k).main_domain
       /\ r.priority < BatchRow(k).priority
       /\ r.depth < BatchRow(k).depth
  /\ BatchRow(1).priority = BatchRow(Len(req_batch)).priority
  /\ BatchRow(1).depth < BatchRow(Len(req_batch)).depth

\* add_to_frontier was called on its own for a URL whose record was pending
AddedToPending ==
  /\ probe.fn = "add_to_frontier"
  /\ HasDoc(probe.args[1], create_id_for_url(probe.args[2]))
  /\ Loc(probe.args[1], create_id_for_url(probe.args[2])).status = "pending"

\* C27: add_to_frontier for a URL whose record is pending adds no record and
\* changes no other record; when the proposed depth is smaller or the
\* proposed priority higher the record's depth becomes the minimum and its
\* priority the maximum of old and proposed, and of the other fields only
\* updated may change; otherwise the record stays as it is, updated
\* included.  url, domain, main_domain, status, created, root,
\* random_sort_key and the feature flags never change.
C27_PendingRediscovery ==
  AddedToPending =>
    LET before == probe.args[1]
        id == create_id_for_url(probe.args[2])
        priority == probe.args[3]
        depth == probe.args[4]
        old == Loc(before, id)
        new == Loc(frontier, id)
    IN /\ Len(frontier) = Len(before)
       /\ \A i \in 1..Len(before) :
            before[i].doc_id # id => frontier[i] = before[i]
       /\ frontier[RowIndex(before, id)].doc_id = id
       /\ \A c \in Columns \ {"depth", "priority", "updated"} :
            new[c] = old[c]
       /\ IF depth < old.depth \/ priority > old.priority
          THEN /\ new.depth = Min(old.depth, depth)
               /\ new.priority = Max(old.priority, priority)
               /\ new.updated.at >= old.updated.at
          ELSE new = old

\* two calls in one: a record pending at high priority was proposed at low
\* priority and smaller depth, by a page of another root and with another
\* random key drawn; it keeps its priority and takes the depth
C27_Witness ==
  /\ AddedToPending
  /\ LET old == Loc(probe.args[1], create_id_for_url(probe.args[2]))
         new == Loc(frontier, create_id_for_url(probe.args[2]))
     IN /\ probe.args[3] < old.priority
        /\ probe.args[4] < old.depth
        /\ probe.args[5] # old.root
        /\ probe.args[6] # old.random_sort_key
        /\ new.priority = old.priority
        /\ new.depth = probe.args[4]
        /\ new.random_sort_key = old.random_sort_key

\* C28: processing a relevant page that declares English sets both
\* features_tubingen and features_english; every valid link has a record
\* afterwards, a record created for a link has priority high, and a pending
\* record found again has priority high; no record is created or changed
\* for the '/en' URL of the page's origin unless it is one of the links.
C28_EnglishBranch ==
  [][(ProcessingPage /\ responses[pos].page.relevant
        /\ responses[pos].page.english /\ pos' = pos + 1) =>
       LET request == req_batch[pos]
           response == responses[pos]
           created == DocIds(frontier') \ DocIds(frontier)
       IN /\ Loc(frontier', request.doc_id).features_tubingen
          /\ Loc(frontier', request.doc_id).features_english
          /\ Loc(frontier', request.doc_id).status = "completed"
          /\ LinkIds(response) \subseteq DocIds(frontier')
          /\ created \subseteq LinkIds(response)
          /\ \A id \in created :
               /\ Loc(frontier', id).status = "pending"
               /\ Loc(frontier', id).depth = request.depth + 1
               /\ Loc(frontier', id).root = request.root
               /\ Loc(frontier', id).priority = PriorityHigh
          /\ \A id \in DocIds(frontier) \ {request.doc_id} :
               IF id \in LinkIds(response)
                  /\ Loc(frontier, id).status = "pending"
               THEN /\ Loc(frontier', id).depth
                         = Min(Loc(frontier, id).depth, request.depth + 1)
                    /\ Loc(frontier', id).priority = PriorityHigh
               ELSE Loc(frontier', id) = Loc(frontier, id)]_vars

\* row i is a relevant English page, processed
EnglishDone(i) ==
  /\ frontier[i].status = "completed"
  /\ frontier[i].features_tubingen
  /\ frontier[i].features_english

\* an English page has been processed: it created a record for a link, at
\* priority high, and its valid '/en' URL has no record
C28_Witness ==
  \E i, j \in 1..Len(frontier) :
    /\ EnglishDone(i) /\ CreatedBy(j, i)
    /\ frontier[j].priority = PriorityHigh
    /\ is_url_valid(EnglishVariant(ParseURL(frontier[i].url)))
    /\ ~HasDoc(frontier,
               create_id_for_url(EnglishVariant(ParseURL(frontier[i].url))))

\* C29: in every record domain is the host of url, and main_domain is the
\* registrable root of domain (its last two labels, or the host itself when
\* it has at most one dot), also when url and domain were set to the URL of
\* a response that came from another host.
C29_DomainFieldsConsistent ==
  \A i \in 1..Len(frontier) :
    /\ frontier[i].domain = ParseURL(frontier[i].url).host
    /\ frontier[i].main_domain = get_main_domain(Https(frontier[i].domain, ""))

\* the URL a doc_id was made from: create_id_for_url is injective here
UrlOfId(id) == ParseURL(id[2])

\* C30: no record is ever created for a URL that fails is_url_valid, be it
\* a seed, an href of a page or the '/en' candidate: every doc_id of the
\* frontier is the id of a valid URL without query and fragment; and the url
\* of every pending record is that URL, so it is valid and canonical and
\* doc_id = create_id_for_url(url).
C30_InvalidNeverEnqueued ==
  \A i \in 1..Len(frontier) :
    /\ is_url_valid(UrlOfId(frontier[i].doc_id))
    /\ clean_url(UrlOfId(frontier[i].doc_id)) = UrlOfId(frontier[i].doc_id)
    /\ frontier[i].status = "pending" =>
         /\ is_url_valid(ParseURL(frontier[i].url))
         /\ clean_url(ParseURL(frontier[i].url)) = ParseURL(frontier[i].url)
         /\ frontier[i].doc_id = create_id_for_url(ParseURL(frontier[i].url))

\* a seed failed validation; a relevant page with an href that extract_url
\* rejects is completed, and so is a page that is not English and whose '/en'
\* candidate is not valid; records are pending
C30_Witness ==
  /\ \E n \in 1..Len(SeedUrls) : ~is_url_valid(clean_url(SeedUrls[n]))
  /\ \E i \in 1..Len(frontier) :
       /\ frontier[i].status = "completed"
       /\ frontier[i].features_tubingen
       /\ \E n \in 1..Len(LinksAt(ParseURL(frontier[i].url))) :
            ~extract_url(LinksAt(ParseURL(frontier[i].url))[n],
                         ParseURL(frontier[i].url)).some
  /\ \E i \in 1..Len(frontier) :
       /\ NonEnglishDone(i)
       /\ ~is_url_valid(EnglishVariant(ParseURL(frontier[i].url)))
       /\ ~HasDoc(frontier,
                  create_id_for_url(EnglishVariant(ParseURL(frontier[i].url))))
  /\ \E i \in 1..Len(frontier) : frontier[i].status = "pending"

\* C31: a failed attempt or the giving up of one request of a batch changes
\* nothing for the other requests: each step of the gather touches the
\* attempts and the outcome of one request only, and when the gather returns
\* every request has its own outcome at its own position, None or a response
\* to its own URL.
C31_SiblingsIndependent ==
  /\ [](pc \in {"gather", "process", "save"} =>
          Len(responses) = Len(req_batch) /\ Len(attempts) = Len(req_batch))
  /\ [](pc \in {"process", "save"} =>
          \A k \in 1..Len(req_batch) :
            \/ responses[k] = NoneResponse
            \/ responses[k] \in ResponsesOf(req_batch[k].url))
  /\ [][pc = "gather" =>
          \E k \in 1..Len(req_batch) :
            \A j \in 1..Len(req_batch) \ {k} :
              responses'[j] = responses[j] /\ attempts'[j] = attempts[j]]_vars

\* one request of the batch has given up after its third attempt while
\* another, which has had a failed attempt itself, is still in flight
C31_Witness ==
  /\ pc = "gather"
  /\ \E j, k \in 1..Len(req_batch) :
       /\ responses[j].kind = "none"
       /\ responses[k].kind = "inflight"
       /\ attempts[k] >= 1
       /\ req_batch[j].url # req_batch[k].url

\* C32: the depth a request carries is the depth of its record when its
\* result is processed, also after an earlier result of the batch has
\* improved the record; so every record created for a link of the page has
\* the depth of the page's record plus one.
C32_ChildDepthFromRecord ==
  /\ [](\A k \in 1..Len(req_batch) :
          (pc \in {"gather", "process"} /\ k >= pos)
            => req_batch[k].depth = BatchRow(k).depth)
  /\ [][(ProcessingPage /\ pos' = pos + 1) =>
          \A id \in DocIds(frontier') \ DocIds(frontier) :
            Loc(frontier', id).depth = BatchRow(pos).depth + 1]_vars

\* C33: in one run a record is dispatched at most once.  A record that has
\* been in a batch is completed or failed when the batch ends and stays so,
\* and a batch is made of records that are pending, each once; so no batch
\* holds a record of an earlier batch, completed or failed.
C33_DispatchedOnce ==
  /\ [][(pc = "loop" /\ pc' = "gather") =>
          \A k \in 1..Len(req_batch') :
            /\ Loc(frontier, req_batch'[k].doc_id).status = "pending"
            /\ \A j \in 1..Len(req_batch') :
                 j # k => req_batch'[j].doc_id # req_batch'[k].doc_id]_vars
  /\ [][(pc = "save" /\ pc' = "loop") =>
          \A id \in BatchIds : Loc(frontier', id).status \in Terminal]_vars
  /\ [][(pc = "gather" \/ pc = "process") => req_batch' = req_batch]_vars
  /\ [][\A id \in DocIds(frontier) :
          Loc(frontier, id).status \in Terminal
            => Loc(frontier', id).status = Loc(frontier, id).status]_vars

\* a batch with room left is in flight while a completed and a failed
\* record with depth < max_depth, of main_domains not in the batch, are in
\* the frontier
C33_Witness ==
  /\ pc = "gather"
  /\ Len(req_batch) < BatchSize
  /\ \E i, j \in 1..Len(frontier) :
       /\ frontier[i].status = "completed"
       /\ frontier[j].status = "failed"
       /\ frontier[i].depth < MaxDepth
       /\ frontier[j].depth < MaxDepth
       /\ \A k \in 1..Len(req_batch) :
            /\ BatchRow(k).main_domain # frontier[i].main_domain
            /\ BatchRow(k).main_domain # frontier[j].main_domain

\* C34: every record has 0 <= depth <= max_depth; its depth is 0 exactly
\* when its root is its own doc_id, that is, when it is a seed; and a record
\* created while a page is processed has depth >= 1.
C34_DepthRange ==
  /\ [](\A i \in 1..Len(frontier) :
          /\ frontier[i].depth \in 0..MaxDepth
          /\ frontier[i].depth = 0 <=> frontier[i].root = frontier[i].doc_id)
  /\ [][\A id \in DocIds(frontier') \ DocIds(frontier) :
          /\ pc = "process"
          /\ Loc(frontier', id).depth >= 1
          /\ Loc(frontier', id).root # id]_vars

\* a page of this batch, not a seed, has created a record at depth
\* max_depth
C34_Witness ==
  /\ pc \in {"process", "save"}
  /\ \E k \in 1..(pos - 1), i \in 1..Len(frontier) :
       /\ BatchRow(k).status = "completed"
       /\ BatchRow(k).depth >= 1
       /\ frontier[i].created = BatchRow(k).updated
       /\ frontier[i].depth = MaxDepth
       /\ frontier[i].root # frontier[i].doc_id

\* the flags of a record agree with its status
FlagsAgree(status, tubingen, english) ==
  /\ english => tubingen
  /\ tubingen => status = "completed"
  /\ status \in {"pending", "failed"} => (~tubingen /\ ~english)

\* C35: between batches, and in the snapshot file, features_english implies
\* features_tubingen, features_tubingen implies status completed, and a
\* pending or failed record has both flags false.
C35_FeatureFlags ==
  /\ pc \in {"loop", "gather", "save", "done"} =>
       \A i \in 1..Len(frontier) :
         FlagsAgree(frontier[i].status, frontier[i].features_tubingen,
                    frontier[i].features_english)
  /\ \A i \in 1..Len(disk.lines) :
       FlagsAgree(disk.lines[i][7], disk.lines[i][12], disk.lines[i][13])

\* a snapshot is written that holds a completed English page, a completed
\* page that is relevant but not English, a completed page that is not
\* relevant, a failed and a pending record
C35_Witness ==
  /\ pc = "loop"
  /\ disk.exists
  /\ disk.lines = to_csv(frontier)
  /\ \E i \in 1..Len(frontier) : EnglishDone(i)
  /\ \E i \in 1..Len(frontier) : NonEnglishDone(i)
  /\ \E i \in 1..Len(frontier) :
       frontier[i].status = "completed" /\ ~frontier[i].features_tubingen
  /\ \E i \in 1..Len(frontier) : frontier[i].status = "failed"
  /\ \E i \in 1..Len(frontier) : frontier[i].status = "pending"

\* a frontier without its timestamps and random keys
Strip(f) ==
  [i \in 1..Len(f) |->
     [c \in Columns \ {"created", "updated", "random_sort_key"} |-> f[i][c]]]

\* the frontier the current batch was computed from: the one of the last
\* snapshot, or the seeds when there is none yet
BatchStart ==
  IF disk.exists THEN read_csv(disk.lines)
  ELSE load_frontier(NoFile, SeedUrls, [n \in 1..Len(SeedUrls) |-> 0], 0)

\* C36: apart from timestamps and random keys, the frontier during and after
\* the result loop is determined by the frontier the batch was computed
\* from, the batch and the outcome of each request: it is what processing
\* the outcomes in request order gives, in whatever order the fetches of the
\* batch have returned.
C36_OrderIndependent ==
  pc \in {"process", "save"} =>
    Strip(frontier)
      = Strip(ProcessAll(BatchStart, req_batch, responses, pos - 1))

\* a batch of two is processed in which the page of the first request
\* proposed the URL of the second and lowered the depth of its record
C36_Witness ==
  /\ pc = "save"
  /\ Len(req_batch) = 2
  /\ ~Rejected(responses[1])
  /\ ~Rejected(responses[2])
  /\ \E n \in 1..Len(Proposals(responses[1])) :
       create_id_for_url(Proposals(responses[1])[n].url) = req_batch[2].doc_id
  /\ BatchRow(2).depth < req_batch[2].depth

\* C37: fetch_next_doc_batch changes nothing in the frontier: no field of a
\* record, no record added or removed, no row moved.  The depth or the
\* priority of a record changes only while a result is processed, for a
\* pending record that the page at hand proposes.
C37_SchedulerReadOnly ==
  /\ [][(pc = "loop") => frontier' = frontier]_vars
  /\ [][\A id \in DocIds(frontier) :
          /\ HasDoc(frontier', id)
          /\ (\/ Loc(frontier', id).depth # Loc(frontier, id).depth
              \/ Loc(frontier', id).priority # Loc(frontier, id).priority)
               => /\ ProcessingPage
                  /\ Loc(frontier, id).status = "pending"
                  /\ \E n \in 1..Len(Proposals(responses[pos])) :
                       create_id_for_url(Proposal(n).url) = id]_vars

\* a batch has been computed whose order is not the row order of the
\* frontier, from a frontier that also holds records the query filtered out
C37_Witness ==
  /\ pc = "gather"
  /\ Len(req_batch) = 2
  /\ RowIndex(frontier, req_batch[1].doc_id)
       > RowIndex(frontier, req_batch[2].doc_id)
  /\ \E i \in 1..Len(frontier) :
       frontier[i].status \in Terminal /\ frontier[i].doc_id \notin BatchIds

====
